---- MODULE Spec2Model ----
(***************************************************************************)
(* Model of src/app.py: the /convert-url-a4 handler                        *)
(* (convert_url_image_to_a4_pdf), which captures a web page as one tall    *)
(* image, computes how many A4 pages it needs, emits one page container    *)
(* per tile and prints the reassembled document to PDF.                    *)
(*                                                                         *)
(* Calls into the browser and the image library are external: each one is  *)
(* an action whose outcome (a value or an exception) is chosen with \E.    *)
(* Texts are sequences of tokens; "contains" is token membership.          *)
(***************************************************************************)
EXTENDS Integers, Sequences, FiniteSets, TLC

VARIABLES
    PLAYWRIGHT_AVAILABLE,   \* module flag, app.py:17-23
    PIL_AVAILABLE,          \* module flag, app.py:25-31
    pc,                     \* position of the handler
    url,                    \* request.url
    capture_browser,        \* "none" | "open" | "closed": browser of app.py:425
    capture_closes,         \* number of browser.close() calls on it
    pdf_browser,            \* "none" | "open" | "closed": browser of app.py:751
    pdf_closes,             \* number of browser.close() calls on it
    content_height,         \* local content_height (0 while not bound)
    img_width,              \* local img_width (0 while not bound)
    img_height,             \* local img_height (0 while not bound)
    a4_width_px,            \* local a4_width_px (0 while not bound)
    a4_height_px,           \* local a4_height_px (0 while not bound)
    width_warning,          \* logger.warning of app.py:669 was issued
    pages_horizontal,       \* local pages_horizontal
    pages_vertical,         \* local pages_vertical
    total_pages,            \* local total_pages
    row,                    \* loop variable of app.py:720
    col,                    \* loop variable of app.py:721
    html_content,           \* the page containers appended to html_content
    pdf_pages,              \* physical pages of the PDF: page -> containers on it
    response,               \* [status, detail] sent to the client
    first_raised,           \* [status, detail] of the first HTTPException raised in the call
    error_msg,              \* local error_msg of app.py:460 (<<>> while not bound)
    prev_input,             \* history: <<img_width, img_height, a4_width_px, a4_height_px>> of the last finished tiling
    prev_tiles,             \* history: the containers that tiling produced
    health_status,          \* the dict the last /health call returned
    pg_pc,                  \* position of the /convert-url-paginated handler
    pg_browser,             \* its local browser: "unbound" | "open" | "closed"
    pg_closes,              \* number of browser.close() calls it made
    pg_response,            \* what its client got
    cu_pc,                  \* position of the /convert-url handler
    cu_browser,             \* its local browser: "unbound" | "open" | "closed"
    cu_content_height,      \* its local content_height (0 while not bound)
    final_height,           \* its local final_height (0 while not bound)
    width_inches,           \* its local width_inches, in units of 1/2400 in
    height_inches,          \* its local height_inches, in units of 1/2400 in
    pdf_request,            \* [width, height] it passed to page.pdf, same units
    cu_response             \* what its client got

vars == <<PLAYWRIGHT_AVAILABLE, PIL_AVAILABLE, pc, url, capture_browser,
          capture_closes, pdf_browser, pdf_closes, content_height, img_width,
          img_height, a4_width_px, a4_height_px, width_warning,
          pages_horizontal, pages_vertical, total_pages, row, col,
          html_content, pdf_pages, response, first_raised, error_msg,
          prev_input, prev_tiles, health_status, pg_pc, pg_browser, pg_closes,
          pg_response, cu_pc, cu_browser, cu_content_height, final_height,
          width_inches, height_inches, pdf_request, cu_response>>

\* The variables of one call of /convert-url-a4, with the history kept on it
a4_vars == <<pc, url, capture_browser, capture_closes, pdf_browser, pdf_closes,
             content_height, img_width, img_height, a4_width_px, a4_height_px,
             width_warning, pages_horizontal, pages_vertical, total_pages, row,
             col, html_content, pdf_pages, response, first_raised, error_msg,
             prev_input, prev_tiles>>
pg_vars == <<pg_pc, pg_browser, pg_closes, pg_response>>
cu_vars == <<cu_pc, cu_browser, cu_content_height, final_height, width_inches,
             height_inches, pdf_request, cu_response>>

flags == <<PLAYWRIGHT_AVAILABLE, PIL_AVAILABLE>>
history == <<prev_input, prev_tiles>>
tiler_locals == <<a4_width_px, a4_height_px, width_warning, pages_horizontal,
                  pages_vertical, total_pages, row, col, html_content>>
browsers == <<capture_browser, capture_closes, pdf_browser, pdf_closes>>

----------------------------------------------------------------------------
(* Program constants *)

A4_WIDTH_PX == 794
A4_HEIGHT_PX == 1123
max_height == 50000

(* Bounds of the explored inputs *)

MaxRows == 4        \* image heights around k * A4_HEIGHT_PX for k in 0..MaxRows
MaxH == 24          \* image heights of the tiler-only specification
MaxPh == 8          \* page heights of the tiler-only specification

----------------------------------------------------------------------------
(* Pure helpers *)

\* math.ceil(a / b) for b > 0. Python divides two ints exactly rounded to a
\* double; for |a| < 2^53 a non-integral quotient is at least 1/b away from
\* an integer, so the float ceiling equals the integer ceiling.
CeilDiv(a, b) == IF a % b = 0 THEN a \div b ELSE (a \div b) + 1

\* abs(x)
Abs(x) == IF x < 0 THEN 0 - x ELSE x

\* min(a, b)
Min(a, b) == IF a <= b THEN a ELSE b

IsSpace(t) == t = " "

RECURSIVE LStrip(_)
LStrip(s) == IF s # <<>> /\ IsSpace(Head(s)) THEN LStrip(Tail(s)) ELSE s

RECURSIVE RStrip(_)
RStrip(s) ==
    IF s # <<>> /\ IsSpace(s[Len(s)]) THEN RStrip(SubSeq(s, 1, Len(s) - 1)) ELSE s

\* str.strip()
Strip(s) == RStrip(LStrip(s))

\* "marker in text"
Contains(text, marker) == \E i \in 1..Len(text) : text[i] = marker

\* str(status_code) for the statuses that occur
StatusText(status) ==
    CASE status = 200 -> "200"
      [] status = 400 -> "400"
      [] status = 404 -> "404"
      [] status = 408 -> "408"
      [] OTHER -> "500"

\* str(exc) of an HTTPException: "<status_code>: <detail>"
StrOfHTTPException(status, detail) == <<StatusText(status), ": ">> \o detail

\* The texts str(exc) can give for an HTTPException built with keyword
\* arguments: Starlette's __str__ where the installed version defines it,
\* and the empty text of Exception.__str__ where it does not
HTTPExceptionTexts(status, detail) == {StrOfHTTPException(status, detail), <<>>}

\* str.lower() on the tokens that matter
LowerToken(t) == IF t = "Timeout" THEN "timeout" ELSE t
Lower(text) == [i \in 1..Len(text) |-> LowerToken(text[i])]

----------------------------------------------------------------------------
(* Inputs and outcomes of the external calls *)

Urls == {<<>>, <<" ">>, <<"a">>, <<"a", "timeout">>}

\* str(nav_error) of an exception thrown by page.goto
NavMessages ==
    {<<"x">>, <<"net::ERR_ABORTED">>, <<"net::ERR_NAME_NOT_RESOLVED">>,
     <<"net::ERR_CONNECTION_REFUSED">>, <<"Timeout">>, <<"timeout">>,
     <<"net::ERR_ABORTED", "timeout">>}

\* str(e) of an exception thrown by any other external call
ErrMessages == {<<"x">>, <<"browser">>, <<"memory">>, <<"Timeout">>}

HttpStatuses == {200, 404, 500}

\* Heights around the multiples of the A4 page height, and two tall ones
SampleHeights ==
    {k * A4_HEIGHT_PX + d : k \in 0..MaxRows, d \in {0 - 1, 0, 1}}
        \cup {max_height, max_height + A4_HEIGHT_PX}

\* Values page.evaluate can return for the content height
MeasuredHeights == {0 - 1, 0, 1, A4_HEIGHT_PX, max_height, max_height + A4_HEIGHT_PX}

\* Sizes PIL can report for the captured image
ImgWidths == {0, A4_WIDTH_PX - 11, A4_WIDTH_PX, A4_WIDTH_PX + 11}
ImgHeights == SampleHeights

NoResponse == [status |-> 0, detail |-> <<>>]
NoInput == <<0, 0, 0, 0>>
NoHealth == [status |-> "", playwright |-> "", pillow |-> ""]
NoOutcome == [kind |-> "none", status |-> 0, detail |-> <<>>]
NoPdfRequest == [width |-> 0, height |-> 0]

----------------------------------------------------------------------------
(* The handler's responses *)

\* raise HTTPException(status_code, detail) leaving the handler
Respond(status, detail) ==
    /\ response' = [status |-> status, detail |-> detail]
    /\ first_raised' = [status |-> status, detail |-> detail]
    /\ pc' = "done"

\* raise HTTPException(raised_status, raised_detail) inside a try block whose
\* "except Exception" clause catches it and raises HTTPException(status, detail)
Reraise(raised_status, raised_detail, status, detail) ==
    /\ response' = [status |-> status, detail |-> detail]
    /\ first_raised' = [status |-> raised_status, detail |-> raised_detail]
    /\ pc' = "done"

\* app.py:831-848: the handler's last except clause
OuterErrorDetail(msg) ==
    <<"Error al convertir URL a PDF (", "Exception", "): ">> \o msg \o
        (IF Contains(Lower(msg), "chromium") \/ Contains(Lower(msg), "browser")
            THEN <<". playwright install chromium">>
         ELSE IF Contains(Lower(msg), "memory") \/ Contains(Lower(msg), "out of memory")
            THEN <<". pagina demasiado grande">>
         ELSE <<>>)

OuterError(msg) == Respond(500, OuterErrorDetail(msg))

\* Variant of the mapping that tests the timeout marker first
NavStatusTimeoutFirst(msg) ==
    IF Contains(msg, "Timeout") \/ Contains(msg, "timeout") THEN 408
    ELSE 400

\* app.py:458-485: the status a navigation error is mapped to
NavStatus(msg) ==
    IF Contains(msg, "net::ERR_ABORTED") THEN 400
    ELSE IF Contains(msg, "net::ERR_NAME_NOT_RESOLVED") THEN 400
    ELSE IF Contains(msg, "net::ERR_CONNECTION_REFUSED") THEN 400
    ELSE IF Contains(msg, "Timeout") \/ Contains(msg, "timeout") THEN 408
    ELSE 400

\* app.py:458-485: the detail a navigation error is mapped to
NavDetail(u, msg) ==
    IF Contains(msg, "net::ERR_ABORTED")
        THEN <<"Error al acceder a la URL: ">> \o u \o <<". La conexion fue abortada">>
    ELSE IF Contains(msg, "net::ERR_NAME_NOT_RESOLVED")
        THEN <<"Error: No se pudo resolver el nombre de dominio de la URL: ">> \o u
    ELSE IF Contains(msg, "net::ERR_CONNECTION_REFUSED")
        THEN <<"Error: La conexion fue rechazada para la URL: ">> \o u
    ELSE IF Contains(msg, "Timeout") \/ Contains(msg, "timeout")
        THEN <<"Timeout: La URL tardo demasiado en cargar: ">> \o u
    ELSE <<"Error al navegar a la URL: ">> \o u \o <<". Detalles: ">> \o msg

----------------------------------------------------------------------------
(* Initial state: the module has been imported, no request is running *)

Init ==
    /\ PLAYWRIGHT_AVAILABLE \in BOOLEAN
    /\ PIL_AVAILABLE \in BOOLEAN
    /\ pc = "idle"
    /\ url = <<>>
    /\ capture_browser = "none"
    /\ capture_closes = 0
    /\ pdf_browser = "none"
    /\ pdf_closes = 0
    /\ content_height = 0
    /\ img_width = 0
    /\ img_height = 0
    /\ a4_width_px = 0
    /\ a4_height_px = 0
    /\ width_warning = FALSE
    /\ pages_horizontal = 0
    /\ pages_vertical = 0
    /\ total_pages = 0
    /\ row = 0
    /\ col = 0
    /\ html_content = <<>>
    /\ pdf_pages = <<>>
    /\ response = NoResponse
    /\ first_raised = NoResponse
    /\ error_msg = <<>>
    /\ prev_input = NoInput
    /\ prev_tiles = <<>>
    /\ health_status = NoHealth
    /\ pg_pc = "idle"
    /\ pg_browser = "unbound"
    /\ pg_closes = 0
    /\ pg_response = NoOutcome
    /\ cu_pc = "idle"
    /\ cu_browser = "unbound"
    /\ cu_content_height = 0
    /\ final_height = 0
    /\ width_inches = 0
    /\ height_inches = 0
    /\ pdf_request = NoPdfRequest
    /\ cu_response = NoOutcome

\* A call starts with a fresh frame: every local is unbound again
FreshFrame ==
    /\ capture_browser' = "none"
    /\ capture_closes' = 0
    /\ pdf_browser' = "none"
    /\ pdf_closes' = 0
    /\ content_height' = 0
    /\ img_width' = 0
    /\ img_height' = 0
    /\ a4_width_px' = 0
    /\ a4_height_px' = 0
    /\ width_warning' = FALSE
    /\ pages_horizontal' = 0
    /\ pages_vertical' = 0
    /\ total_pages' = 0
    /\ row' = 0
    /\ col' = 0
    /\ html_content' = <<>>
    /\ pdf_pages' = <<>>
    /\ error_msg' = <<>>

\* Variant of the validation that looks at the URL first
RequestUrlFirst ==
    /\ pc \in {"idle", "done"}
    /\ \E u \in Urls :
        /\ url' = u
        /\ FreshFrame
        /\ IF u = <<>> \/ Strip(u) = <<>>
              THEN Respond(400, <<"La URL no puede estar vacia">>)
           ELSE IF ~PLAYWRIGHT_AVAILABLE
              THEN Respond(500, <<"Playwright no esta instalado">>)
           ELSE IF ~PIL_AVAILABLE
              THEN Respond(500, <<"PIL/Pillow no esta instalado">>)
           ELSE /\ pc' = "launch"
                /\ response' = NoResponse
                /\ first_raised' = NoResponse
    /\ UNCHANGED <<flags, history>>

\* app.py:393-420: a request arrives; dependencies and URL are validated
Request ==
    /\ pc \in {"idle", "done"}
    /\ \E u \in Urls :
        /\ url' = u
        /\ FreshFrame
        /\ IF ~PLAYWRIGHT_AVAILABLE
              THEN Respond(500, <<"Playwright no esta instalado">>)
           ELSE IF ~PIL_AVAILABLE
              THEN Respond(500, <<"PIL/Pillow no esta instalado">>)
           ELSE IF u = <<>> \/ Strip(u) = <<>>
              THEN Respond(400, <<"La URL no puede estar vacia">>)
           ELSE /\ pc' = "launch"
                /\ response' = NoResponse
                /\ first_raised' = NoResponse
    /\ UNCHANGED <<flags, history>>

\* app.py:422-432: start Playwright, launch the capture browser, open a page
Launch ==
    /\ pc = "launch"
    /\ \/ /\ capture_browser' = "open"
          /\ pc' = "goto"
          /\ UNCHANGED <<response, first_raised, first_raised>>
       \/ /\ \E msg \in ErrMessages : OuterError(msg)
          /\ UNCHANGED capture_browser
    /\ UNCHANGED <<flags, history, tiler_locals, url, error_msg, capture_closes, pdf_browser,
                   pdf_closes, content_height, img_width, img_height, pdf_pages>>

\* app.py:435-485: navigate; a missing response, an HTTP error status and a
\* thrown exception all end in the except clause of line 458
Goto ==
    /\ pc = "goto"
    /\ \/ \* response is None: close, raise, caught at 458, close again
          LET detail == <<"No se pudo cargar la URL: ">> \o url \o <<". La pagina no respondio">>
          IN \E text \in HTTPExceptionTexts(400, detail) :
                /\ capture_browser' = "closed"
                /\ capture_closes' = capture_closes + 2
                /\ error_msg' = text
                /\ Reraise(400, detail, NavStatus(text), NavDetail(url, text))
       \/ \E s \in HttpStatuses :
            IF s >= 400
               THEN LET detail == <<"Error HTTP ", StatusText(s), " al acceder a la URL: ">> \o url
                    IN \E text \in HTTPExceptionTexts(400, detail) :
                          /\ capture_browser' = "closed"
                          /\ capture_closes' = capture_closes + 2
                          /\ error_msg' = text
                          /\ Reraise(400, detail, NavStatus(text), NavDetail(url, text))
               ELSE /\ pc' = "settle"
                    /\ UNCHANGED <<capture_browser, capture_closes, response,
                                   first_raised, error_msg>>
       \/ \E msg \in NavMessages :
            /\ capture_browser' = "closed"
            /\ capture_closes' = capture_closes + 1
            /\ error_msg' = msg
            /\ Respond(NavStatus(msg), NavDetail(url, msg))
    /\ UNCHANGED <<flags, history, tiler_locals, url, pdf_browser, pdf_closes,
                   content_height, img_width, img_height, pdf_pages>>

\* app.py:487-531: wait for the page, inject the A4 styles, set the viewport
Settle ==
    /\ pc = "settle"
    /\ \/ /\ a4_width_px' = A4_WIDTH_PX
          /\ pc' = "measure"
          /\ UNCHANGED <<response, first_raised, first_raised>>
       \/ /\ \E msg \in ErrMessages : OuterError(msg)
          /\ UNCHANGED a4_width_px
    /\ UNCHANGED <<flags, history, browsers, url, error_msg, content_height, img_width,
                   img_height, pdf_pages, a4_height_px, width_warning,
                   pages_horizontal, pages_vertical, total_pages, row, col,
                   html_content>>

\* app.py:533-590: wait for the images, measure the content height, clamp it
Measure ==
    /\ pc = "measure"
    /\ \/ \* evaluate returned None
          /\ capture_browser' = "closed"
          /\ capture_closes' = capture_closes + 2
          /\ \E text \in HTTPExceptionTexts(500, <<"No se pudo obtener la altura valida de la pagina">>) :
                        Reraise(500, <<"No se pudo obtener la altura valida de la pagina">>, 500, <<"Error al obtener la altura de la pagina: ">> \o text)
          /\ UNCHANGED content_height
       \/ \E v \in MeasuredHeights :
            IF v = 0 \/ v <= 0
               THEN \* bound at 555, raise at 573, caught at 584: closed twice
                    /\ capture_browser' = "closed"
                    /\ capture_closes' = capture_closes + 2
                    /\ \E text \in HTTPExceptionTexts(500, <<"No se pudo obtener la altura valida de la pagina">>) :
                        Reraise(500, <<"No se pudo obtener la altura valida de la pagina">>, 500, <<"Error al obtener la altura de la pagina: ">> \o text)
                    /\ content_height' = v
               ELSE /\ content_height' = Min(v, max_height)
                    /\ pc' = "viewport"
                    /\ UNCHANGED <<capture_browser, capture_closes, response, first_raised>>
       \/ \E msg \in ErrMessages :
            /\ capture_browser' = "closed"
            /\ capture_closes' = capture_closes + 1
            /\ Respond(500, <<"Error al obtener la altura de la pagina: ">> \o msg)
            /\ UNCHANGED content_height
    /\ UNCHANGED <<flags, history, tiler_locals, url, error_msg, pdf_browser, pdf_closes,
                   img_width, img_height, pdf_pages>>

\* app.py:592-607: resize the viewport to the content height plus a buffer
Viewport ==
    /\ pc = "viewport"
    /\ \/ /\ pc' = "screenshot"
          /\ UNCHANGED <<capture_browser, capture_closes, response, first_raised>>
       \/ \E msg \in ErrMessages :
            /\ capture_browser' = "closed"
            /\ capture_closes' = capture_closes + 1
            /\ Respond(500, <<"Error al ajustar el viewport: ">> \o msg)
    /\ UNCHANGED <<flags, history, tiler_locals, url, error_msg, pdf_browser, pdf_closes,
                   content_height, img_width, img_height, pdf_pages>>

\* app.py:609-631: full-page screenshot, then the capture browser is closed
Screenshot ==
    /\ pc = "screenshot"
    /\ \/ \* bytes returned: browser.close() of line 631
          /\ capture_browser' = "closed"
          /\ capture_closes' = capture_closes + 1
          /\ pc' = "image"
          /\ UNCHANGED <<response, first_raised, first_raised>>
       \/ \* empty bytes: close, raise at 618, caught at 623, close again
          /\ capture_browser' = "closed"
          /\ capture_closes' = capture_closes + 2
          /\ \E text \in HTTPExceptionTexts(500, <<"La captura de pantalla esta vacia">>) :
                        Reraise(500, <<"La captura de pantalla esta vacia">>, 500, <<"Error al capturar la pagina como imagen: ">> \o text)
       \/ \E msg \in ErrMessages :
            /\ capture_browser' = "closed"
            /\ capture_closes' = capture_closes + 1
            /\ Respond(500, <<"Error al capturar la pagina como imagen: ">> \o msg)
    /\ UNCHANGED <<flags, history, tiler_locals, url, error_msg, pdf_browser, pdf_closes,
                   content_height, img_width, img_height, pdf_pages>>

\* app.py:611-614 and 635-636: the heights the full-page screenshot can have.
\* full_page=True captures the whole scrollable page, whatever the viewport:
\* a page that measured max_height or more can give a taller image.
CapturedHeights ==
    {h \in ImgHeights : h > max_height => content_height = max_height}

\* Variant of the image step without the size check of line 638
OpenImageNoCheck ==
    /\ pc = "image"
    /\ \/ \E w \in ImgWidths, h \in CapturedHeights :
            /\ img_width' = w
            /\ img_height' = h
            /\ pc' = "dims"
            /\ UNCHANGED <<response, first_raised, first_raised>>
       \/ \E msg \in ErrMessages :
            /\ Respond(500, <<"Error al procesar la imagen capturada: ">> \o msg)
            /\ UNCHANGED <<img_width, img_height>>
    /\ UNCHANGED <<flags, history, tiler_locals, browsers, url, error_msg, content_height,
                   pdf_pages>>

\* app.py:633-648: open the screenshot with PIL and read its size
OpenImage ==
    /\ pc = "image"
    /\ \/ \E w \in ImgWidths, h \in CapturedHeights :
            /\ img_width' = w
            /\ img_height' = h
            /\ IF w <= 0 \/ h <= 0
                  THEN \E text \in HTTPExceptionTexts(500, <<"Las dimensiones de la imagen capturada son invalidas">>) :
                        Reraise(500, <<"Las dimensiones de la imagen capturada son invalidas">>, 500, <<"Error al procesar la imagen capturada: ">> \o text)
                  ELSE /\ pc' = "dims"
                       /\ UNCHANGED <<response, first_raised, first_raised>>
       \/ \E msg \in ErrMessages :
            /\ Respond(500, <<"Error al procesar la imagen capturada: ">> \o msg)
            /\ UNCHANGED <<img_width, img_height>>
    /\ UNCHANGED <<flags, history, tiler_locals, browsers, url, error_msg, content_height,
                   pdf_pages>>

\* app.py:650-665: encode the image, bind the A4 dimensions in pixels
SetA4Dims ==
    /\ pc = "dims"
    /\ a4_width_px' = A4_WIDTH_PX
    /\ a4_height_px' = A4_HEIGHT_PX
    /\ pc' = "pages"
    /\ UNCHANGED <<flags, history, browsers, url, error_msg, content_height, img_width,
                   img_height, pdf_pages, response, first_raised, width_warning,
                   pages_horizontal, pages_vertical, total_pages, row, col,
                   html_content>>

\* Variants of the page count a slip in line 673 would give
PagesVerticalFloor(h, ph) == h \div ph
PagesVerticalRound(h, ph) == (2 * h + ph) \div (2 * ph)
PagesVerticalPlusOne(h, ph) == (h \div ph) + 1
PagesVerticalFromContent(h, ph) == CeilDiv(content_height, ph)

\* app.py:673: pages_vertical = math.ceil(img_height / a4_height_px)
PagesVertical(h, ph) == CeilDiv(h, ph)

\* Variant of the page counts that tiles a wide image horizontally too
ComputePagesByWidth ==
    /\ pc = "pages"
    /\ width_warning' = (Abs(img_width - a4_width_px) > 10)
    /\ pages_horizontal' = CeilDiv(img_width, a4_width_px)
    /\ pages_vertical' = CeilDiv(img_height, a4_height_px)
    /\ total_pages' = pages_horizontal' * pages_vertical'
    /\ html_content' = <<>>
    /\ row' = 0
    /\ col' = 0
    /\ pc' = "tiling"
    /\ UNCHANGED <<flags, history, browsers, url, error_msg, content_height, img_width,
                   img_height, pdf_pages, response, first_raised, a4_width_px, a4_height_px>>

\* app.py:667-717: width check, page counts, the document's head
ComputePages ==
    /\ pc = "pages"
    /\ width_warning' = (Abs(img_width - a4_width_px) > 10)
    /\ pages_horizontal' = 1
    /\ pages_vertical' = PagesVertical(img_height, a4_height_px)
    /\ total_pages' = pages_horizontal' * pages_vertical'
    /\ html_content' = <<>>
    /\ row' = 0
    /\ col' = 0
    /\ pc' = "tiling"
    /\ UNCHANGED <<flags, history, browsers, url, error_msg, content_height, img_width,
                   img_height, pdf_pages, response, first_raised, a4_width_px, a4_height_px>>

\* app.py:723: x_offset = -col * a4_width_px
XOffset(c, pw) == 0 - (c * pw)

\* Variant of the vertical offset: the window after the row's own
YOffsetNextRow(r, ph) == 0 - ((r + 1) * ph)

\* app.py:724: y_offset = -row * a4_height_px
YOffset(r, ph) == 0 - (r * ph)

\* app.py:726-730: the container appended for one (row, col)
PageContainer(r, c, pw, ph) ==
    [class |-> "page", x_offset |-> XOffset(c, pw), y_offset |-> YOffset(r, ph)]

\* Variant of the loop body that puts the new container first
AppendTilePrepend ==
    /\ pc = "tiling"
    /\ row < pages_vertical
    /\ col < pages_horizontal
    /\ html_content' = <<PageContainer(row, col, a4_width_px, a4_height_px)>> \o html_content
    /\ IF col + 1 < pages_horizontal
          THEN /\ col' = col + 1
               /\ UNCHANGED row
          ELSE /\ col' = 0
               /\ row' = row + 1
    /\ UNCHANGED <<flags, history, browsers, url, error_msg, content_height, img_width,
                   img_height, pdf_pages, response, first_raised, pc, a4_width_px, a4_height_px,
                   width_warning, pages_horizontal, pages_vertical, total_pages>>

\* app.py:720-730: one iteration of the nested loops
AppendTile ==
    /\ pc = "tiling"
    /\ row < pages_vertical
    /\ col < pages_horizontal
    /\ html_content' = Append(html_content, PageContainer(row, col, a4_width_px, a4_height_px))
    /\ IF col + 1 < pages_horizontal
          THEN /\ col' = col + 1
               /\ UNCHANGED row
          ELSE /\ col' = 0
               /\ row' = row + 1
    /\ UNCHANGED <<flags, history, browsers, url, error_msg, content_height, img_width,
                   img_height, pdf_pages, response, first_raised, pc, a4_width_px, a4_height_px,
                   width_warning, pages_horizontal, pages_vertical, total_pages>>

\* app.py:732-744: the loops are over; the document is closed
CloseHtml ==
    /\ pc = "tiling"
    /\ row >= pages_vertical
    /\ pc' = "pdf_launch"
    /\ prev_input' = <<img_width, img_height, a4_width_px, a4_height_px>>
    /\ prev_tiles' = html_content
    /\ UNCHANGED <<flags, tiler_locals, browsers, url, error_msg, content_height, img_width,
                   img_height, pdf_pages, response, first_raised>>

\* Variant of the style sheet without the .page:last-child rule
PageBreakAfterAlways(doc, i) == "always"

\* app.py:694-705: the page-break-after value the style sheet gives to the
\* i-th container: "always" from .page, overridden by .page:last-child
PageBreakAfter(doc, i) == IF i = Len(doc) THEN "auto" ELSE "always"

\* app.py:788-794: page.pdf lays the containers out on physical pages. A
\* forced break ends the current page; whatever follows, even nothing, is on
\* the next one.
RECURSIVE PaginateFrom(_, _, _, _)
PaginateFrom(doc, i, pages, cur) ==
    IF i > Len(doc) THEN Append(pages, cur)
    ELSE IF PageBreakAfter(doc, i) = "always"
        THEN PaginateFrom(doc, i + 1, Append(pages, Append(cur, i)), <<>>)
        ELSE PaginateFrom(doc, i + 1, pages, Append(cur, i))

Paginate(doc) == PaginateFrom(doc, 1, <<>>, <<>>)

\* app.py:746-757 and 814-819: launch the browser that prints the document
PdfLaunch ==
    /\ pc = "pdf_launch"
    /\ \/ /\ pdf_browser' = "open"
          /\ pc' = "set_content"
          /\ UNCHANGED <<response, first_raised, first_raised>>
       \/ /\ \E msg \in ErrMessages :
                Respond(500, <<"Error inesperado al generar el PDF: ">> \o msg)
          /\ UNCHANGED pdf_browser
    /\ UNCHANGED <<flags, history, tiler_locals, url, error_msg, capture_browser,
                   capture_closes, pdf_closes, content_height, img_width,
                   img_height, pdf_pages>>

\* app.py:765-785: the detail for a failure to load the document
HtmlLoadDetail(msg) ==
    IF Contains(Lower(msg), "timeout")
        THEN <<"Timeout al cargar el HTML. Error: ">> \o msg
    ELSE IF Contains(Lower(msg), "memory") \/ Contains(Lower(msg), "out of memory")
        THEN <<"Error de memoria. Error: ">> \o msg
    ELSE <<"Error al cargar el HTML para generar el PDF: ">> \o msg

\* app.py:759-785: load the document into the page
SetContent ==
    /\ pc = "set_content"
    /\ \/ /\ pc' = "pdf"
          /\ UNCHANGED <<pdf_browser, pdf_closes, response, first_raised>>
       \/ \E msg \in ErrMessages :
            /\ pdf_browser' = "closed"
            /\ pdf_closes' = pdf_closes + 1
            /\ Respond(500, HtmlLoadDetail(msg))
    /\ UNCHANGED <<flags, history, tiler_locals, url, error_msg, capture_browser,
                   capture_closes, content_height, img_width, img_height,
                   pdf_pages>>

\* app.py:787-811: print the document, then close the browser
Pdf ==
    /\ pc = "pdf"
    /\ \/ /\ pdf_pages' = Paginate(html_content)
          /\ pdf_browser' = "closed"
          /\ pdf_closes' = pdf_closes + 1
          /\ pc' = "return"
          /\ UNCHANGED <<response, first_raised, first_raised>>
       \/ \* empty bytes: close, raise at 798, caught at 803, close again
          /\ pdf_browser' = "closed"
          /\ pdf_closes' = pdf_closes + 2
          /\ \E text \in HTTPExceptionTexts(500, <<"El PDF generado esta vacio">>) :
                        Reraise(500, <<"El PDF generado esta vacio">>, 500, <<"Error al generar el PDF: ">> \o text)
          /\ UNCHANGED pdf_pages
       \/ \E msg \in ErrMessages :
            /\ pdf_browser' = "closed"
            /\ pdf_closes' = pdf_closes + 1
            /\ Respond(500, <<"Error al generar el PDF: ">> \o msg)
            /\ UNCHANGED pdf_pages
    /\ UNCHANGED <<flags, history, tiler_locals, url, error_msg, capture_browser,
                   capture_closes, content_height, img_width, img_height>>

\* app.py:821-827: the PDF is returned
Return ==
    /\ pc = "return"
    /\ response' = [status |-> 200, detail |-> <<"application/pdf">>]
    /\ pc' = "done"
    /\ UNCHANGED first_raised
    /\ UNCHANGED <<flags, history, tiler_locals, browsers, url, error_msg, content_height,
                   img_width, img_height, pdf_pages>>

\* A step of the /convert-url-a4 handler touches no other handler's locals
OthersOfA4 == <<health_status, pg_vars, cu_vars>>

Next ==
    \/ Request /\ UNCHANGED OthersOfA4
    \/ Launch /\ UNCHANGED OthersOfA4
    \/ Goto /\ UNCHANGED OthersOfA4
    \/ Settle /\ UNCHANGED OthersOfA4
    \/ Measure /\ UNCHANGED OthersOfA4
    \/ Viewport /\ UNCHANGED OthersOfA4
    \/ Screenshot /\ UNCHANGED OthersOfA4
    \/ OpenImage /\ UNCHANGED OthersOfA4
    \/ SetA4Dims /\ UNCHANGED OthersOfA4
    \/ ComputePages /\ UNCHANGED OthersOfA4
    \/ AppendTile /\ UNCHANGED OthersOfA4
    \/ CloseHtml /\ UNCHANGED OthersOfA4
    \/ PdfLaunch /\ UNCHANGED OthersOfA4
    \/ SetContent /\ UNCHANGED OthersOfA4
    \/ Pdf /\ UNCHANGED OthersOfA4
    \/ Return /\ UNCHANGED OthersOfA4

Spec == Init /\ [][Next]_vars

----------------------------------------------------------------------------
(* The tiling step alone, over every image height and page height of a     *)
(* bounded range: the state is the one ComputePages starts in.             *)

TilerInit ==
    /\ PLAYWRIGHT_AVAILABLE = TRUE
    /\ PIL_AVAILABLE = TRUE
    /\ pc = "pages"
    /\ url = <<"a">>
    /\ capture_browser = "closed"
    /\ capture_closes = 1
    /\ pdf_browser = "none"
    /\ pdf_closes = 0
    /\ content_height = 1
    /\ img_width \in {A4_WIDTH_PX, A4_WIDTH_PX + 11}
    /\ img_height \in 1..MaxH
    /\ a4_width_px = A4_WIDTH_PX
    /\ a4_height_px \in 1..MaxPh
    /\ width_warning = FALSE
    /\ pages_horizontal = 0
    /\ pages_vertical = 0
    /\ total_pages = 0
    /\ row = 0
    /\ col = 0
    /\ html_content = <<>>
    /\ pdf_pages = <<>>
    /\ response = NoResponse
    /\ first_raised = NoResponse
    /\ error_msg = <<>>
    /\ prev_input = NoInput
    /\ prev_tiles = <<>>
    /\ health_status = NoHealth
    /\ pg_pc = "idle"
    /\ pg_browser = "unbound"
    /\ pg_closes = 0
    /\ pg_response = NoOutcome
    /\ cu_pc = "idle"
    /\ cu_browser = "unbound"
    /\ cu_content_height = 0
    /\ final_height = 0
    /\ width_inches = 0
    /\ height_inches = 0
    /\ pdf_request = NoPdfRequest
    /\ cu_response = NoOutcome

TilerNext ==
    \/ ComputePages /\ UNCHANGED OthersOfA4
    \/ AppendTile /\ UNCHANGED OthersOfA4
    \/ CloseHtml /\ UNCHANGED OthersOfA4

TilerSpec == TilerInit /\ [][TilerNext]_vars

----------------------------------------------------------------------------
(* GET /health                                                             *)

\* Variant of the status that is degraded only when both are missing
HealthStatusBothMissing(playwright, pillow) ==
    IF ~playwright /\ ~pillow THEN "degraded" ELSE "ok"

\* app.py:87-94: "ok", overwritten by "degraded" when a dependency is missing
HealthStatus(playwright, pillow) ==
    IF ~playwright \/ ~pillow THEN "degraded" ELSE "ok"

\* app.py:89-90: "available" if <flag> else "not available"
Availability(flag) == IF flag THEN "available" ELSE "not available"

\* app.py:84-96: health_check; it has no await, so it is one step
HealthCheck ==
    /\ health_status' = [status |-> HealthStatus(PLAYWRIGHT_AVAILABLE, PIL_AVAILABLE),
                         playwright |-> Availability(PLAYWRIGHT_AVAILABLE),
                         pillow |-> Availability(PIL_AVAILABLE)]
    /\ UNCHANGED flags

----------------------------------------------------------------------------
(* POST /convert-url-paginated                                             *)

\* raise HTTPException(status_code=500, detail=...)
HttpError(detail) == [kind |-> "HTTPException", status |-> 500, detail |-> detail]

\* An exception that leaves the handler without being turned into an
\* HTTPException: the server answers 500 "Internal Server Error"
Unhandled(name) == [kind |-> "unhandled", status |-> 500, detail |-> <<name>>]

\* return Response(content=pdf_bytes, media_type="application/pdf")
PdfResponse == [kind |-> "Response", status |-> 200, detail |-> <<"application/pdf">>]

\* app.py:936-942: the except clause. browser.close() comes first: with
\* browser not yet bound it raises UnboundLocalError; on a browser whose
\* Playwright connection the "async with" has already stopped it returns or
\* raises, as the driver decides.
PgExcept(msg) ==
    IF pg_browser = "unbound"
        THEN /\ pg_response' = Unhandled("UnboundLocalError")
             /\ pg_pc' = "done"
             /\ UNCHANGED <<pg_browser, pg_closes>>
        ELSE /\ pg_browser' = "closed"
             /\ pg_closes' = pg_closes + 1
             /\ pg_pc' = "done"
             /\ \/ pg_response' = HttpError(<<"Error al convertir HTML a PDF: ">> \o msg)
                \/ pg_response' = Unhandled("Error")

\* app.py:851-858: a request arrives
PgRequest ==
    /\ pg_pc \in {"idle", "done"}
    /\ pg_pc' = "start"
    /\ pg_browser' = "unbound"
    /\ pg_closes' = 0
    /\ pg_response' = NoOutcome
    /\ UNCHANGED flags

\* Variant of the first step that records a failed start in the module flag
PgStartMarksUnavailable ==
    /\ pg_pc = "start"
    /\ IF ~PLAYWRIGHT_AVAILABLE
          THEN PgExcept(<<"'NoneType' object is not callable">>) /\ UNCHANGED flags
          ELSE \/ /\ pg_pc' = "launch"
                  /\ UNCHANGED <<pg_browser, pg_closes, pg_response, flags>>
               \/ /\ \E msg \in ErrMessages : PgExcept(msg)
                  /\ PLAYWRIGHT_AVAILABLE' = FALSE
                  /\ UNCHANGED PIL_AVAILABLE

\* app.py:859: async_playwright() is entered; the name is None when the
\* import of line 18 failed
PgStart ==
    /\ pg_pc = "start"
    /\ IF ~PLAYWRIGHT_AVAILABLE
          THEN PgExcept(<<"'NoneType' object is not callable">>)
          ELSE \/ /\ pg_pc' = "launch"
                  /\ UNCHANGED <<pg_browser, pg_closes, pg_response>>
               \/ \E msg \in ErrMessages : PgExcept(msg)
    /\ UNCHANGED flags

\* app.py:861: browser = await p.chromium.launch(headless=True)
PgLaunch ==
    /\ pg_pc = "launch"
    /\ \/ /\ pg_browser' = "open"
          /\ pg_pc' = "load"
          /\ UNCHANGED <<pg_closes, pg_response>>
       \/ \E msg \in ErrMessages : PgExcept(msg)
    /\ UNCHANGED flags

\* app.py:862-913: new page, navigation, styles, viewport
PgLoad ==
    /\ pg_pc = "load"
    /\ \/ /\ pg_pc' = "pdf"
          /\ UNCHANGED <<pg_browser, pg_closes, pg_response>>
       \/ \E msg \in ErrMessages : PgExcept(msg)
    /\ UNCHANGED flags

\* app.py:915-926: print, then close the browser
PgPdf ==
    /\ pg_pc = "pdf"
    /\ \/ /\ pg_browser' = "closed"
          /\ pg_closes' = pg_closes + 1
          /\ pg_pc' = "return"
          /\ UNCHANGED pg_response
       \/ \E msg \in ErrMessages : PgExcept(msg)
    /\ UNCHANGED flags

\* app.py:928-935: the PDF is returned
PgReturn ==
    /\ pg_pc = "return"
    /\ pg_response' = PdfResponse
    /\ pg_pc' = "done"
    /\ UNCHANGED <<pg_browser, pg_closes, flags>>

----------------------------------------------------------------------------
(* POST /convert-url                                                       *)

\* app.py:356: 96 px per inch
DPI == 96

\* Lengths in inches are kept exact, in units of 1/2400 in: 1 px at 96 DPI
\* is 25 units, 0.01 in is 24 units. The code's floats differ from these by
\* rounding only, which is monotone.
UnitsPerInch == DPI * 25

\* app.py:356: final_height / 96.0
PxToInches(px) == px * 25

\* app.py:360: 11.69
A4HeightInches == 1169 * 24

\* app.py:244: 8.27
A4WidthInches == 827 * 24

\* app.py:363: 0.2
SafetyMargin == 20 * 24

\* Variant of the height that keeps a measurement under one inch
PdfHeightNoMinimum(h) == PxToInches(h) + SafetyMargin

\* app.py:355-363: the PDF height for a final measured height in pixels
PdfHeight(h) ==
    (IF PxToInches(h) < 1 * UnitsPerInch THEN A4HeightInches ELSE PxToInches(h))
        + SafetyMargin

\* Values page.evaluate can return for the height in this handler
CuHeights == {0 - 1, 0, DPI - 1, DPI, DPI + 1, A4_HEIGHT_PX}

\* app.py:385-389: the except clause
CuExcept(msg) ==
    /\ cu_response' = HttpError(<<"Error al convertir HTML a PDF: ">> \o msg)
    /\ cu_pc' = "done"

\* app.py:217-224: a request arrives
CuRequest ==
    /\ cu_pc \in {"idle", "done"}
    /\ cu_pc' = "launch"
    /\ cu_browser' = "unbound"
    /\ cu_content_height' = 0
    /\ final_height' = 0
    /\ width_inches' = 0
    /\ height_inches' = 0
    /\ pdf_request' = NoPdfRequest
    /\ cu_response' = NoOutcome
    /\ UNCHANGED flags

\* app.py:225-230: start Playwright, launch the browser, open a page
CuLaunch ==
    /\ cu_pc = "launch"
    /\ IF ~PLAYWRIGHT_AVAILABLE
          THEN CuExcept(<<"'NoneType' object is not callable">>) /\ UNCHANGED cu_browser
          ELSE \/ /\ cu_browser' = "open"
                  /\ cu_pc' = "load"
                  /\ UNCHANGED cu_response
               \/ /\ \E msg \in ErrMessages : CuExcept(msg)
                  /\ UNCHANGED cu_browser
    /\ UNCHANGED <<flags, cu_content_height, final_height, width_inches,
                   height_inches, pdf_request>>

\* app.py:233-287: navigate, wait, bind the A4 width, inject styles, viewport
CuLoad ==
    /\ cu_pc = "load"
    /\ \/ /\ width_inches' = A4WidthInches
          /\ cu_pc' = "measure"
          /\ UNCHANGED cu_response
       \/ /\ \E msg \in ErrMessages : CuExcept(msg)
          /\ UNCHANGED width_inches
    /\ UNCHANGED <<flags, cu_browser, cu_content_height, final_height,
                   height_inches, pdf_request>>

\* app.py:289-312: measure the content height, resize the viewport
CuMeasure ==
    /\ cu_pc = "measure"
    /\ \/ \E v \in CuHeights :
            /\ cu_content_height' = v
            /\ \/ cu_pc' = "remeasure" /\ UNCHANGED cu_response
               \/ \E msg \in ErrMessages : CuExcept(msg)
       \/ /\ \E msg \in ErrMessages : CuExcept(msg)
          /\ UNCHANGED cu_content_height
    /\ UNCHANGED <<flags, cu_browser, final_height, width_inches, height_inches,
                   pdf_request>>

\* app.py:314-337: measure again, resize the viewport
CuRemeasure ==
    /\ cu_pc = "remeasure"
    /\ \/ \E v \in CuHeights :
            /\ final_height' = v
            /\ \/ cu_pc' = "final" /\ UNCHANGED cu_response
               \/ \E msg \in ErrMessages : CuExcept(msg)
       \/ /\ \E msg \in ErrMessages : CuExcept(msg)
          /\ UNCHANGED final_height
    /\ UNCHANGED <<flags, cu_browser, cu_content_height, width_inches,
                   height_inches, pdf_request>>

\* app.py:339-363: measure a last time and derive the PDF height
CuFinalMeasure ==
    /\ cu_pc = "final"
    /\ \/ \E v \in CuHeights :
            /\ final_height' = v
            /\ height_inches' = PdfHeight(v)
            /\ cu_pc' = "pdf"
            /\ UNCHANGED cu_response
       \/ /\ \E msg \in ErrMessages : CuExcept(msg)
          /\ UNCHANGED <<final_height, height_inches>>
    /\ UNCHANGED <<flags, cu_browser, cu_content_height, width_inches, pdf_request>>

\* app.py:365-375: print one page of width_inches x height_inches, close
CuPdf ==
    /\ cu_pc = "pdf"
    /\ \/ /\ pdf_request' = [width |-> width_inches, height |-> height_inches]
          /\ cu_browser' = "closed"
          /\ cu_pc' = "return"
          /\ UNCHANGED cu_response
       \/ /\ pdf_request' = [width |-> width_inches, height |-> height_inches]
          /\ \E msg \in ErrMessages : CuExcept(msg)
          /\ UNCHANGED cu_browser
    /\ UNCHANGED <<flags, cu_content_height, final_height, width_inches,
                   height_inches>>

\* app.py:377-384: the PDF is returned
CuReturn ==
    /\ cu_pc = "return"
    /\ cu_response' = PdfResponse
    /\ cu_pc' = "done"
    /\ UNCHANGED <<flags, cu_browser, cu_content_height, final_height,
                   width_inches, height_inches, pdf_request>>

----------------------------------------------------------------------------
(* The three small handlers, running concurrently: asyncio interleaves the *)
(* calls at their awaits.                                                  *)

OthersOfHealth == <<a4_vars, pg_vars, cu_vars>>
OthersOfPg == <<a4_vars, health_status, cu_vars>>
OthersOfCu == <<a4_vars, health_status, pg_vars>>

ServiceNext ==
    \/ HealthCheck /\ UNCHANGED OthersOfHealth
    \/ PgRequest /\ UNCHANGED OthersOfPg
    \/ PgStart /\ UNCHANGED OthersOfPg
    \/ PgLaunch /\ UNCHANGED OthersOfPg
    \/ PgLoad /\ UNCHANGED OthersOfPg
    \/ PgPdf /\ UNCHANGED OthersOfPg
    \/ PgReturn /\ UNCHANGED OthersOfPg
    \/ CuRequest /\ UNCHANGED OthersOfCu
    \/ CuLaunch /\ UNCHANGED OthersOfCu
    \/ CuLoad /\ UNCHANGED OthersOfCu
    \/ CuMeasure /\ UNCHANGED OthersOfCu
    \/ CuRemeasure /\ UNCHANGED OthersOfCu
    \/ CuFinalMeasure /\ UNCHANGED OthersOfCu
    \/ CuPdf /\ UNCHANGED OthersOfCu
    \/ CuReturn /\ UNCHANGED OthersOfCu

ServiceSpec == Init /\ [][ServiceNext]_vars

----------------------------------------------------------------------------
(* One call of /convert-url-a4 running concurrently with calls of          *)
(* /convert-url-paginated and /health.                                     *)

ConcNext ==
    \/ pc = "idle" /\ Request /\ UNCHANGED OthersOfA4
    \/ Launch /\ UNCHANGED OthersOfA4
    \/ Goto /\ UNCHANGED OthersOfA4
    \/ Settle /\ UNCHANGED OthersOfA4
    \/ Measure /\ UNCHANGED OthersOfA4
    \/ Viewport /\ UNCHANGED OthersOfA4
    \/ Screenshot /\ UNCHANGED OthersOfA4
    \/ OpenImage /\ UNCHANGED OthersOfA4
    \/ SetA4Dims /\ UNCHANGED OthersOfA4
    \/ ComputePages /\ UNCHANGED OthersOfA4
    \/ AppendTile /\ UNCHANGED OthersOfA4
    \/ CloseHtml /\ UNCHANGED OthersOfA4
    \/ PdfLaunch /\ UNCHANGED OthersOfA4
    \/ SetContent /\ UNCHANGED OthersOfA4
    \/ Pdf /\ UNCHANGED OthersOfA4
    \/ Return /\ UNCHANGED OthersOfA4
    \/ HealthCheck /\ UNCHANGED OthersOfHealth
    \/ PgRequest /\ UNCHANGED OthersOfPg
    \/ PgStart /\ UNCHANGED OthersOfPg
    \/ PgLaunch /\ UNCHANGED OthersOfPg
    \/ PgLoad /\ UNCHANGED OthersOfPg
    \/ PgPdf /\ UNCHANGED OthersOfPg
    \/ PgReturn /\ UNCHANGED OthersOfPg

ConcSpec == Init /\ [][ConcNext]_vars

----------------------------------------------------------------------------
(* Properties *)

\* The page counts are bound: the handler is in or past the tiling loop
AfterPages == pc \in {"tiling", "pdf_launch", "set_content", "pdf", "return"}

\* The tiling loop is over
AfterTiling ==
    \/ pc = "tiling" /\ row >= pages_vertical
    \/ pc \in {"pdf_launch", "set_content", "pdf", "return"}

CurrentInput == <<img_width, img_height, a4_width_px, a4_height_px>>

\* C1: for positive image height h and page height ph the page count
\* (pages_vertical, total_pages) is ceil(h / ph): it is the least n with
\* n * ph >= h.
C1_PageCountIsCeil ==
    (AfterPages /\ img_height > 0 /\ a4_height_px > 0) =>
        /\ pages_vertical * a4_height_px >= img_height
        /\ \A n \in 0..img_height :
              n * a4_height_px >= img_height => n >= pages_vertical
        /\ total_pages = pages_vertical

C1_Witness ==
    /\ AfterPages
    /\ img_height % a4_height_px # 0
    /\ 2 * (img_height % a4_height_px) < a4_height_px
    /\ pages_vertical >= 3

\* C2: the loop emits exactly pageCount tiles; tile i (0-based) has vertical
\* offset -(i * pageHeight) and horizontal offset 0; the first tile's vertical
\* offset is 0.
C2_TileOffsets ==
    AfterTiling =>
        /\ Len(html_content) = total_pages
        /\ \A i \in 0..(total_pages - 1) :
              /\ html_content[i + 1].y_offset = 0 - (i * a4_height_px)
              /\ html_content[i + 1].x_offset = 0
        /\ (total_pages >= 1 => html_content[1].y_offset = 0)

C2_Witness ==
    /\ AfterTiling
    /\ Len(html_content) >= 3
    /\ html_content[3].y_offset = 0 - (2 * A4_HEIGHT_PX)

\* C3: tiles are emitted in ascending row order: at every moment of the loop
\* and after it, each tile's vertical offset is exactly pageHeight below the
\* one before it.
C3_OffsetsDecreaseByPageHeight ==
    (pc = "tiling" \/ AfterTiling) =>
        \A i \in 1..(Len(html_content) - 1) :
            /\ html_content[i].y_offset - html_content[i + 1].y_offset = a4_height_px
            /\ html_content[i].y_offset > html_content[i + 1].y_offset

C3_Witness ==
    /\ pc = "tiling"
    /\ row < pages_vertical
    /\ Len(html_content) >= 2

\* The image rows tile i (1-based position in html_content) shows
Window(i) ==
    {y \in 0..(img_height - 1) :
        /\ 0 - html_content[i].y_offset <= y
        /\ y < (0 - html_content[i].y_offset) + a4_height_px}

\* C4: for positive h and ph the tiles cover the image with no gap, overlap
\* or superfluous page: every pixel row is in the window of exactly one tile,
\* and the last tile's window holds at least one row
\* ((pageCount - 1) * ph < h <= pageCount * ph).
C4_TilesCoverImage ==
    (AfterTiling /\ img_height > 0 /\ a4_height_px > 0) =>
        /\ \A y \in 0..(img_height - 1) :
              Cardinality({i \in 1..Len(html_content) : y \in Window(i)}) = 1
        /\ \A i \in 1..Len(html_content) : Window(i) # {}
        /\ (pages_vertical - 1) * a4_height_px < img_height
        /\ img_height <= pages_vertical * a4_height_px

C4_Witness ==
    /\ AfterTiling
    /\ Len(html_content) >= 3
    /\ img_height % a4_height_px # 0
    /\ Cardinality(Window(Len(html_content))) < a4_height_px

\* C5: an image height that is an exact multiple k * ph gives k tiles (h = ph
\* gives 1; h = 2246 with ph = 1123 gives 2 tiles at offsets 0 and -1123), and
\* a height one pixel above a multiple gives k + 1 tiles (h = ph + 1 gives 2).
C5_Boundaries ==
    (AfterPages /\ img_height > 0) =>
        /\ (img_height % a4_height_px = 0 =>
               pages_vertical = img_height \div a4_height_px)
        /\ (img_height % a4_height_px = 1 =>
               pages_vertical = (img_height \div a4_height_px) + 1)
        /\ (img_height = a4_height_px => total_pages = 1)
        /\ (img_height = a4_height_px + 1 => total_pages = 2)
        /\ (img_height = 2246 /\ a4_height_px = 1123 =>
               /\ total_pages = 2
               /\ (AfterTiling =>
                      [i \in 1..Len(html_content) |-> html_content[i].y_offset]
                          = <<0, 0 - 1123>>))

C5_Witness ==
    /\ AfterTiling
    /\ img_height = 2246
    /\ a4_height_px = 1123
    /\ Len(html_content) = 2

\* C6 as stated: with pageHeight 1123 an image of height 3370 gives 3 pages.
C6_Original ==
    (AfterPages /\ a4_height_px = 1123 /\ img_height = 3370) => pages_vertical = 3

\* C6, amended: three pages of 1123 are 3369 rows, so an image of height 3370
\* is one row more than three pages and gives 4 pages; height 3369 gives 3.
C6_Amended ==
    /\ 3 * A4_HEIGHT_PX = 3369
    /\ (AfterPages /\ a4_height_px = 1123 /\ img_height = 3370) => pages_vertical = 4
    /\ (AfterPages /\ a4_height_px = 1123 /\ img_height = 3369) => pages_vertical = 3

C6_Witness ==
    /\ AfterPages
    /\ a4_height_px = 1123
    /\ img_height = 3370
    /\ pages_vertical = 4

\* The steps of the tiling computation: page counts and the loop
TilingStep == pc \in {"pages", "tiling"}

\* C7: the tiling computation is deterministic and has no side effects: a
\* run that ends with the same (imageWidth, imageHeight, pageWidth,
\* pageHeight) as the last finished run has produced the same tile sequence,
\* and no tiling step changes the module flags, the request, the browsers,
\* the measured sizes, the PDF or the response.
C7_Deterministic ==
    [][ /\ (pc = "tiling" /\ pc' = "pdf_launch" /\ prev_input = CurrentInput)
            => html_content = prev_tiles
        /\ TilingStep =>
              UNCHANGED <<flags, url, browsers, content_height, img_width,
                          img_height, pdf_pages, response>> ]_vars

C7_Witness ==
    /\ pc = "tiling"
    /\ row >= pages_vertical
    /\ prev_input = CurrentInput
    /\ Len(prev_tiles) >= 2
    /\ html_content = prev_tiles

\* C8: the page count is at least 1 whenever the tiling step is reached: a
\* non-positive measured content height, and a captured image with a
\* non-positive width or height, end the request with status 500 before any
\* page count or tile is computed.
C8_NonPositiveRejected ==
    [][ /\ (pc = "measure" /\ content_height' <= 0) =>
              /\ pc' = "done"
              /\ response'.status = 500
              /\ pages_vertical' = 0 /\ total_pages' = 0 /\ html_content' = <<>>
        /\ (pc = "image" /\ (img_width' <= 0 \/ img_height' <= 0)) =>
              /\ pc' = "done"
              /\ response'.status = 500
              /\ pages_vertical' = 0 /\ total_pages' = 0 /\ html_content' = <<>>
        /\ (pc = "pages" /\ pc' = "tiling") =>
              /\ content_height > 0 /\ img_width > 0 /\ img_height > 0
              /\ pages_vertical' >= 1 /\ total_pages' >= 1 ]_vars

C8_Witness ==
    /\ pc = "done"
    /\ content_height > 0
    /\ img_width > 0
    /\ img_height <= 0
    /\ response.status = 500
    /\ total_pages = 0

\* C9 as stated: the image height fed to the page count never exceeds the
\* maximum height of 50000 px, so the page count is at most
\* ceil(50000 / 1123) = 45.
C9_HeightClamped ==
    AfterPages =>
        /\ img_height <= max_height
        /\ pages_vertical <= 45

\* C10: the document has one page container per tile, in tile order, with a
\* forced page break after every container but the last; the printed PDF has
\* exactly pageCount physical pages and page k shows tile k, with no
\* trailing blank page.
C10_OnePagePerTile ==
    /\ AfterTiling =>
          /\ Len(html_content) = total_pages
          /\ \A k \in 1..Len(html_content) :
                /\ html_content[k].class = "page"
                /\ html_content[k].y_offset = 0 - ((k - 1) * a4_height_px)
                /\ PageBreakAfter(html_content, k)
                      = (IF k < Len(html_content) THEN "always" ELSE "auto")
    /\ pc = "return" =>
          /\ Len(pdf_pages) = total_pages
          /\ \A k \in 1..Len(pdf_pages) : pdf_pages[k] = <<k>>

C10_Witness ==
    /\ pc = "return"
    /\ total_pages >= 3
    /\ Len(pdf_pages) = total_pages
    /\ pdf_pages[total_pages] = <<total_pages>>

\* C11: the tiler never validates or rejects on width: whatever the image
\* width (equal to, below or above the 794 px page width) the step that
\* computes the page counts goes on to the loop with one column, so
\* total_pages = pages_vertical and every horizontal offset is 0; a mismatch
\* of more than 10 px sets the warning and nothing else.
C11_WidthNeverValidated ==
    /\ [](AfterTiling =>
            /\ pages_horizontal = 1
            /\ total_pages = pages_vertical
            /\ Len(html_content) = pages_vertical
            /\ \A i \in 1..Len(html_content) : html_content[i].x_offset = 0)
    /\ [][ (pc = "pages" /\ pc' # "pages") =>
              /\ pc' = "tiling"
              /\ pages_horizontal' = 1
              /\ total_pages' = pages_vertical'
              /\ pages_vertical' * a4_height_px >= img_height
              /\ (pages_vertical' - 1) * a4_height_px < img_height
              /\ width_warning' = (img_width - a4_width_px > 10
                                      \/ a4_width_px - img_width > 10)
              /\ UNCHANGED <<response, img_width, img_height>> ]_vars

C11_Witness ==
    /\ AfterTiling
    /\ img_width > a4_width_px + 10
    /\ width_warning
    /\ pages_horizontal = 1
    /\ Len(html_content) >= 2
    /\ html_content[2].x_offset = 0

\* The call ended with an HTTPException
Failed == pc = "done" /\ response.status # 200

\* C13 as stated: every HTTPException raised inside the handler reaches the
\* client unmodified, with the status and the detail it was raised with.
C13_HTTPExceptionUnmodified ==
    Failed => response = first_raised

\* The HTTPException of line 445 (no response) or 453 (HTTP status >= 400)
\* was raised
NavigationRejected ==
    /\ pc = "done"
    /\ first_raised.status = 400
    /\ first_raised.detail # <<>>
    /\ first_raised.detail[1] \in {"No se pudo cargar la URL: ", "Error HTTP "}

\* C14 as stated: for every URL, when navigation returns no response or a
\* status >= 400 the request fails with 400 (never 408 or 500) and no
\* screenshot, tiling or PDF generation takes place.
C14_NavigationFailureIs400 ==
    NavigationRejected =>
        /\ response.status = 400
        /\ img_width = 0 /\ img_height = 0
        /\ total_pages = 0 /\ html_content = <<>>
        /\ pdf_browser = "none" /\ pdf_pages = <<>>

NetMarkers ==
    {"net::ERR_ABORTED", "net::ERR_NAME_NOT_RESOLVED", "net::ERR_CONNECTION_REFUSED"}

\* page.goto itself threw: error_msg is bound and the browser was closed once
GotoThrew == pc = "done" /\ capture_closes = 1 /\ error_msg # <<>>

\* C15: an exception thrown by page.goto is mapped by its message: a timeout
\* marker and no net::ERR_* marker gives 408, every other message gives 400;
\* a message with both a net::ERR_* marker and a timeout marker gives 400.
C15_NavigationErrorMapping ==
    GotoThrew =>
        LET net == \E m \in NetMarkers : Contains(error_msg, m)
            timeout == Contains(error_msg, "Timeout") \/ Contains(error_msg, "timeout")
        IN /\ (timeout /\ ~net) => response.status = 408
           /\ ~(timeout /\ ~net) => response.status = 400
           /\ response = first_raised

C15_Witness ==
    /\ GotoThrew
    /\ Contains(error_msg, "net::ERR_ABORTED")
    /\ Contains(error_msg, "timeout")
    /\ response.status = 400

\* C16: validation has a fixed order and launches no browser: Playwright
\* unavailable gives 500; else Pillow unavailable gives 500; else an empty or
\* blank URL gives 400. An empty URL with a missing dependency gives 500.
C16_ValidationOrder ==
    /\ (pc = "done" /\ ~PLAYWRIGHT_AVAILABLE) =>
          /\ response = [status |-> 500, detail |-> <<"Playwright no esta instalado">>]
          /\ capture_browser = "none" /\ pdf_browser = "none"
    /\ (pc = "done" /\ PLAYWRIGHT_AVAILABLE /\ ~PIL_AVAILABLE) =>
          /\ response = [status |-> 500, detail |-> <<"PIL/Pillow no esta instalado">>]
          /\ capture_browser = "none" /\ pdf_browser = "none"
    /\ (pc = "done" /\ PLAYWRIGHT_AVAILABLE /\ PIL_AVAILABLE
            /\ \A i \in 1..Len(url) : url[i] = " ") =>
          /\ response = [status |-> 400, detail |-> <<"La URL no puede estar vacia">>]
          /\ capture_browser = "none" /\ pdf_browser = "none"
    /\ pc \notin {"idle", "done"} =>
          /\ PLAYWRIGHT_AVAILABLE /\ PIL_AVAILABLE
          /\ \E i \in 1..Len(url) : url[i] # " "

C16_Witness ==
    /\ pc = "done"
    /\ ~PIL_AVAILABLE
    /\ PLAYWRIGHT_AVAILABLE
    /\ url = <<>>
    /\ response.status = 500

\* C18 as stated: on every path browser.close() is invoked exactly once for
\* each browser that was launched, before the handler responds, and the
\* capture browser is closed before the PDF browser is launched.
C18_EachBrowserClosedOnce ==
    /\ pc = "done" =>
          /\ (capture_browser # "none" => capture_closes = 1)
          /\ (pdf_browser # "none" => pdf_closes = 1)
    /\ pdf_browser # "none" => capture_browser = "closed"

\* A lone /convert-url-a4 request's layout: a function of its own image only
LayoutAlone(h) ==
    [i \in 1..CeilDiv(h, A4_HEIGHT_PX) |->
        [class |-> "page", x_offset |-> 0, y_offset |-> 0 - ((i - 1) * A4_HEIGHT_PX)]]

\* C12: the service is stateless and safe under concurrent requests: no step
\* of any handler writes PLAYWRIGHT_AVAILABLE or PIL_AVAILABLE, a step of one
\* request leaves the locals of the other requests alone, a request that passed
\* the dependency checks still sees both dependencies available, and under any
\* interleaving its tile layout is the one it produces when it runs alone.
C12_StatelessUnderConcurrency ==
    /\ [][UNCHANGED flags]_vars
    /\ [][/\ a4_vars' # a4_vars => UNCHANGED <<pg_vars, health_status>>
          /\ pg_vars' # pg_vars => UNCHANGED <<a4_vars, health_status>>
          /\ health_status' # health_status => UNCHANGED <<a4_vars, pg_vars>>]_vars
    /\ [](pc \notin {"idle", "done"} => PLAYWRIGHT_AVAILABLE /\ PIL_AVAILABLE)
    /\ [](AfterTiling => html_content = LayoutAlone(img_height))

C12_Witness ==
    /\ AfterTiling
    /\ Len(html_content) >= 2
    /\ pg_pc = "load"
    /\ health_status # NoHealth

\* The paginated handler has answered with something other than the PDF
PgFailed == pg_pc = "done" /\ pg_response.kind # "Response"

\* C17: in convert-url-paginated, whenever a step fails, also before a
\* browser object exists, no browser is left open and the answer is an
\* HTTPException of status 500 whose detail starts with
\* 'Error al convertir HTML a PDF: '.
C17_PaginatedFailureIs500 ==
    PgFailed =>
        /\ pg_browser # "open"
        /\ pg_response.kind = "HTTPException"
        /\ pg_response.status = 500
        /\ Len(pg_response.detail) >= 2
        /\ Head(pg_response.detail) = "Error al convertir HTML a PDF: "

\* C19: in convert-url the requested PDF height is the final measured height
\* at 96 px per inch, replaced by the 11.69 in default when final_height < 96,
\* plus 0.2 in; it is at least 1.2 in, and the width is 8.27 in.
C19_PdfPageSize ==
    pdf_request # NoPdfRequest =>
        /\ pdf_request.width = A4WidthInches
        /\ pdf_request.height >= UnitsPerInch + SafetyMargin
        /\ final_height < DPI => pdf_request.height = A4HeightInches + SafetyMargin
        /\ final_height >= DPI =>
              pdf_request.height * DPI = (final_height * UnitsPerInch) + (SafetyMargin * DPI)

C19_Witness ==
    /\ pdf_request # NoPdfRequest
    /\ final_height <= 0
    /\ pdf_request.height = A4HeightInches + SafetyMargin
    /\ cu_response = PdfResponse

\* C20: the health endpoint reports "degraded" exactly when Playwright or
\* Pillow is unavailable and "ok" exactly when both are available, its
\* playwright and pillow fields agree with the flags, and the call changes
\* neither flag.
C20_HealthReflectsFlags ==
    /\ [](health_status # NoHealth =>
            /\ health_status.status \in {"ok", "degraded"}
            /\ health_status.status = "degraded" <=> (~PLAYWRIGHT_AVAILABLE \/ ~PIL_AVAILABLE)
            /\ health_status.status = "ok" <=> (PLAYWRIGHT_AVAILABLE /\ PIL_AVAILABLE)
            /\ health_status.playwright =
                  (IF PLAYWRIGHT_AVAILABLE THEN "available" ELSE "not available")
            /\ health_status.pillow =
                  (IF PIL_AVAILABLE THEN "available" ELSE "not available"))
    /\ [][health_status' # health_status => UNCHANGED flags]_vars

C20_Witness ==
    /\ health_status.status = "degraded"
    /\ PLAYWRIGHT_AVAILABLE
    /\ ~PIL_AVAILABLE
    /\ health_status.pillow = "not available"

====
